---- MODULE Spec2Model ----
(***************************************************************************)
(* llauncher: reads a YAML configuration, renders it to a llama-server     *)
(* command line, spawns llama-server, relays SIGINT/SIGTERM to it and      *)
(* exits with its status.  Model of src/llauncher.go.                      *)
(***************************************************************************)
EXTENDS Integers, Sequences, FiniteSets, TLC

VARIABLES
  osArgs,        \* os.Args of the launcher
  env,           \* environment: LLAMA_CONFIG_PATH, XDG_CONFIG_HOME, HOME
  files,         \* file system: path -> "missing" | "bad" | name of a config
  pc,            \* position of the main goroutine in main()
  debugMode,     \* main: debugMode
  helpShown,     \* showHelp() was called
  configFile,    \* main: configFile
  config,        \* main: config (the decoded LlamaConfig)
  loadErr,       \* main: err of loadConfig, "unset" before the call
  buildErr,      \* main: err of buildArgs, "unset" before the call
  built,         \* buildArgs was called
  args,          \* main: args
  spawnArgv,     \* what execCommand was given: <<name, args>>
  notified,      \* signal.Notify(sigChan, SIGINT, SIGTERM) is installed
  sigChan,       \* buffered channel of signals, each [id, sig] (id: index in received)
  relayPc,       \* position of the relay goroutine
  relaySig,      \* relay goroutine: sig, as [id, sig]
  cmdProcess,    \* cmd.Process: "nil" or "proc"
  runErr,        \* err returned by cmd.Run(): "nil" | "ExitError" | "other"
  waitStatus,    \* syscall.WaitStatus reaped by cmd.Wait()
  childState,    \* the llama-server process: "none" | "running" | "exited" | "signaled"
  childStatus,   \* status the child terminated with
  childSignals,  \* signals delivered to the running child, each [id, sig]
  received,      \* every SIGINT/SIGTERM delivered to the launcher, in order
  spawnAttempts, \* number of calls of os.StartProcess
  exitVia,       \* how the launcher process ended: "none" | "return" | "os.Exit" | "signal"
  exitCode,      \* exit code of the launcher process, NoCode while it has none
  shown          \* text of formatArgsForDisplay(args) printed in debug mode

vars == <<osArgs, env, files, pc, debugMode, helpShown, configFile, config,
          loadErr, buildErr, built, args, spawnArgv, notified, sigChan, relayPc, relaySig,
          cmdProcess, runErr, waitStatus, childState, childStatus,
          childSignals, received, spawnAttempts, exitVia, exitCode, shown>>

(***************************************************************************)
(* Bounds                                                                  *)
(***************************************************************************)
MaxSignals == 2        \* signals delivered to the launcher in one run

(***************************************************************************)
(* type LlamaConfig struct: one row per field, in declaration order        *)
(***************************************************************************)
LlamaConfig ==
  <<
    [name |-> "Host", yaml |-> "host", arg |-> "--host", typ |-> "string"],
    [name |-> "Port", yaml |-> "port", arg |-> "--port", typ |-> "int"],
    [name |-> "Path", yaml |-> "path", arg |-> "--path", typ |-> "string"],
    [name |-> "ApiPrefix", yaml |-> "api-prefix", arg |-> "--api-prefix", typ |-> "string"],
    [name |-> "NoWebUI", yaml |-> "no-webui", arg |-> "--no-webui", typ |-> "bool"],
    [name |-> "Timeout", yaml |-> "timeout", arg |-> "--timeout", typ |-> "int"],
    [name |-> "ThreadsHTTP", yaml |-> "threads-http", arg |-> "--threads-http", typ |-> "int"],
    [name |-> "Props", yaml |-> "props", arg |-> "--props", typ |-> "bool"],
    [name |-> "ModelPath", yaml |-> "model", arg |-> "--model", typ |-> "string"],
    [name |-> "ModelUrl", yaml |-> "model-url", arg |-> "--model-url", typ |-> "string"],
    [name |-> "HfRepo", yaml |-> "hf-repo", arg |-> "--hf-repo", typ |-> "string"],
    [name |-> "HfRepoDraft", yaml |-> "hf-repo-draft", arg |-> "--hf-repo-draft", typ |-> "string"],
    [name |-> "HfRepoV", yaml |-> "hf-repo-v", arg |-> "--hf-repo-v", typ |-> "string"],
    [name |-> "HfFile", yaml |-> "hf-file", arg |-> "--hf-file", typ |-> "string"],
    [name |-> "HfFileV", yaml |-> "hf-file-v", arg |-> "--hf-file-v", typ |-> "string"],
    [name |-> "HfToken", yaml |-> "hf-token", arg |-> "--hf-token", typ |-> "string"],
    [name |-> "Offline", yaml |-> "offline", arg |-> "--offline", typ |-> "bool"],
    [name |-> "Alias", yaml |-> "alias", arg |-> "--alias", typ |-> "string"],
    [name |-> "Threads", yaml |-> "threads", arg |-> "--threads", typ |-> "int"],
    [name |-> "ThreadsBatch", yaml |-> "threads-batch", arg |-> "--threads-batch", typ |-> "int"],
    [name |-> "CpuMask", yaml |-> "cpu-mask", arg |-> "--cpu-mask", typ |-> "string"],
    [name |-> "CpuMaskBatch", yaml |-> "cpu-mask-batch", arg |-> "--cpu-mask-batch", typ |-> "string"],
    [name |-> "CpuRange", yaml |-> "cpu-range", arg |-> "--cpu-range", typ |-> "string"],
    [name |-> "CpuRangeBatch", yaml |-> "cpu-range-batch", arg |-> "--cpu-range-batch", typ |-> "string"],
    [name |-> "CpuStrict", yaml |-> "cpu-strict", arg |-> "--cpu-strict", typ |-> "int"],
    [name |-> "CpuStrictBatch", yaml |-> "cpu-strict-batch", arg |-> "--cpu-strict-batch", typ |-> "int"],
    [name |-> "Priority", yaml |-> "prio", arg |-> "--prio", typ |-> "int"],
    [name |-> "PriorityBatch", yaml |-> "prio-batch", arg |-> "--prio-batch", typ |-> "int"],
    [name |-> "Poll", yaml |-> "poll", arg |-> "--poll", typ |-> "int"],
    [name |-> "PollBatch", yaml |-> "poll-batch", arg |-> "--poll-batch", typ |-> "int"],
    [name |-> "BatchSize", yaml |-> "batch-size", arg |-> "--batch-size", typ |-> "int"],
    [name |-> "UBatchSize", yaml |-> "ubatch-size", arg |-> "--ubatch-size", typ |-> "int"],
    [name |-> "GpuLayers", yaml |-> "n-gpu-layers", arg |-> "--n-gpu-layers", typ |-> "int"],
    [name |-> "SplitMode", yaml |-> "split-mode", arg |-> "--split-mode", typ |-> "string"],
    [name |-> "TensorSplit", yaml |-> "tensor-split", arg |-> "--tensor-split", typ |-> "string"],
    [name |-> "MainGPU", yaml |-> "main-gpu", arg |-> "--main-gpu", typ |-> "int"],
    [name |-> "Numa", yaml |-> "numa", arg |-> "--numa", typ |-> "string"],
    [name |-> "Device", yaml |-> "device", arg |-> "--device", typ |-> "string"],
    [name |-> "NoPerf", yaml |-> "no-perf", arg |-> "--no-perf", typ |-> "bool"],
    [name |-> "Parallel", yaml |-> "parallel", arg |-> "--parallel", typ |-> "int"],
    [name |-> "ContextSize", yaml |-> "ctx-size", arg |-> "--ctx-size", typ |-> "int"],
    [name |-> "FlashAttn", yaml |-> "flash-attn", arg |-> "--flash-attn", typ |-> "bool"],
    [name |-> "Mlock", yaml |-> "mlock", arg |-> "--mlock", typ |-> "bool"],
    [name |-> "NoMMap", yaml |-> "no-mmap", arg |-> "--no-mmap", typ |-> "bool"],
    [name |-> "CacheTypeK", yaml |-> "cache-type-k", arg |-> "--cache-type-k", typ |-> "string"],
    [name |-> "CacheTypeKDraft", yaml |-> "cache-type-k-draft", arg |-> "--cache-type-k-draft", typ |-> "string"],
    [name |-> "CacheTypeV", yaml |-> "cache-type-v", arg |-> "--cache-type-v", typ |-> "string"],
    [name |-> "CacheTypeVDraft", yaml |-> "cache-type-v-draft", arg |-> "--cache-type-v-draft", typ |-> "string"],
    [name |-> "CacheReuse", yaml |-> "cache-reuse", arg |-> "--cache-reuse", typ |-> "int"],
    [name |-> "SwaFull", yaml |-> "swa-full", arg |-> "--swa-full", typ |-> "bool"],
    [name |-> "KvUnified", yaml |-> "kv-unified", arg |-> "--kv-unified", typ |-> "bool"],
    [name |-> "NoKvOffload", yaml |-> "no-kv-offload", arg |-> "--no-kv-offload", typ |-> "bool"],
    [name |-> "NoRepack", yaml |-> "no-repack", arg |-> "--no-repack", typ |-> "bool"],
    [name |-> "NoOpOffload", yaml |-> "no-op-offload", arg |-> "--no-op-offload", typ |-> "bool"],
    [name |-> "RopeScaling", yaml |-> "rope-scaling", arg |-> "--rope-scaling", typ |-> "string"],
    [name |-> "RopeScale", yaml |-> "rope-scale", arg |-> "--rope-scale", typ |-> "float64"],
    [name |-> "RopeFreqBase", yaml |-> "rope-freq-base", arg |-> "--rope-freq-base", typ |-> "float64"],
    [name |-> "RopeFreqScale", yaml |-> "rope-freq-scale", arg |-> "--rope-freq-scale", typ |-> "float64"],
    [name |-> "YarnOrigCtx", yaml |-> "yarn-orig-ctx", arg |-> "--yarn-orig-ctx", typ |-> "int"],
    [name |-> "YarnExtFactor", yaml |-> "yarn-ext-factor", arg |-> "--yarn-ext-factor", typ |-> "float64"],
    [name |-> "YarnAttnFactor", yaml |-> "yarn-attn-factor", arg |-> "--yarn-attn-factor", typ |-> "float64"],
    [name |-> "YarnBetaSlow", yaml |-> "yarn-beta-slow", arg |-> "--yarn-beta-slow", typ |-> "float64"],
    [name |-> "YarnBetaFast", yaml |-> "yarn-beta-fast", arg |-> "--yarn-beta-fast", typ |-> "float64"],
    [name |-> "CpuMoe", yaml |-> "cpu-moe", arg |-> "--cpu-moe", typ |-> "bool"],
    [name |-> "NCpuMoe", yaml |-> "n-cpu-moe", arg |-> "--n-cpu-moe", typ |-> "string"],
    [name |-> "OverrideTensor", yaml |-> "override-tensor", arg |-> "--override-tensor", typ |-> "string"],
    [name |-> "OverrideTensorDraft", yaml |-> "override-tensor-draft", arg |-> "--override-tensor-draft", typ |-> "string"],
    [name |-> "OverrideKv", yaml |-> "override-kv", arg |-> "--override-kv", typ |-> "string"],
    [name |-> "Seed", yaml |-> "seed", arg |-> "--seed", typ |-> "int"],
    [name |-> "Samplers", yaml |-> "samplers", arg |-> "--samplers", typ |-> "string"],
    [name |-> "SamplerSeq", yaml |-> "sampler-seq", arg |-> "--sampler-seq", typ |-> "string"],
    [name |-> "IgnoreEOS", yaml |-> "ignore-eos", arg |-> "--ignore-eos", typ |-> "bool"],
    [name |-> "Temperature", yaml |-> "temp", arg |-> "--temp", typ |-> "float64"],
    [name |-> "TopK", yaml |-> "top-k", arg |-> "--top-k", typ |-> "int"],
    [name |-> "TopP", yaml |-> "top-p", arg |-> "--top-p", typ |-> "float64"],
    [name |-> "MinP", yaml |-> "min-p", arg |-> "--min-p", typ |-> "float64"],
    [name |-> "TopNSigma", yaml |-> "top-nsigma", arg |-> "--top-nsigma", typ |-> "float64"],
    [name |-> "Typical", yaml |-> "typical", arg |-> "--typical", typ |-> "float64"],
    [name |-> "RepeatLastN", yaml |-> "repeat-last-n", arg |-> "--repeat-last-n", typ |-> "int"],
    [name |-> "RepeatPenalty", yaml |-> "repeat-penalty", arg |-> "--repeat-penalty", typ |-> "float64"],
    [name |-> "PresencePenalty", yaml |-> "presence-penalty", arg |-> "--presence-penalty", typ |-> "float64"],
    [name |-> "FrequencyPenalty", yaml |-> "frequency-penalty", arg |-> "--frequency-penalty", typ |-> "float64"],
    [name |-> "Mirostat", yaml |-> "mirostat", arg |-> "--mirostat", typ |-> "int"],
    [name |-> "MirostatLR", yaml |-> "mirostat-lr", arg |-> "--mirostat-lr", typ |-> "float64"],
    [name |-> "MirostatEnt", yaml |-> "mirostat-ent", arg |-> "--mirostat-ent", typ |-> "float64"],
    [name |-> "XtcProbability", yaml |-> "xtc-probability", arg |-> "--xtc-probability", typ |-> "float64"],
    [name |-> "XtcThreshold", yaml |-> "xtc-threshold", arg |-> "--xtc-threshold", typ |-> "float64"],
    [name |-> "DryMultiplier", yaml |-> "dry-multiplier", arg |-> "--dry-multiplier", typ |-> "float64"],
    [name |-> "DryBase", yaml |-> "dry-base", arg |-> "--dry-base", typ |-> "float64"],
    [name |-> "DryAllowedLen", yaml |-> "dry-allowed-length", arg |-> "--dry-allowed-length", typ |-> "int"],
    [name |-> "DryPenaltyLastN", yaml |-> "dry-penalty-last-n", arg |-> "--dry-penalty-last-n", typ |-> "int"],
    [name |-> "DrySequenceBreaker", yaml |-> "dry-sequence-breaker", arg |-> "--dry-sequence-breaker", typ |-> "string"],
    [name |-> "DynaTempRange", yaml |-> "dynatemp-range", arg |-> "--dynatemp-range", typ |-> "float64"],
    [name |-> "DynaTempExp", yaml |-> "dynatemp-exp", arg |-> "--dynatemp-exp", typ |-> "float64"],
    [name |-> "Grammar", yaml |-> "grammar", arg |-> "--grammar", typ |-> "string"],
    [name |-> "GrammarFile", yaml |-> "grammar-file", arg |-> "--grammar-file", typ |-> "string"],
    [name |-> "JsonSchema", yaml |-> "json-schema", arg |-> "--json-schema", typ |-> "string"],
    [name |-> "JsonSchemaFile", yaml |-> "json-schema-file", arg |-> "--json-schema-file", typ |-> "string"],
    [name |-> "Escape", yaml |-> "escape", arg |-> "--escape", typ |-> "bool"],
    [name |-> "NoEscape", yaml |-> "no-escape", arg |-> "--no-escape", typ |-> "bool"],
    [name |-> "SpmInfill", yaml |-> "spm-infill", arg |-> "--spm-infill", typ |-> "bool"],
    [name |-> "LoraAdapters", yaml |-> "lora", arg |-> "--lora", typ |-> "[]string"],
    [name |-> "LoraScaled", yaml |-> "lora-scaled", arg |-> "--lora-scaled", typ |-> "[]string"],
    [name |-> "LoraInitWithoutApply", yaml |-> "lora-init-without-apply", arg |-> "--lora-init-without-apply", typ |-> "bool"],
    [name |-> "ControlVector", yaml |-> "control-vector", arg |-> "--control-vector", typ |-> "[]string"],
    [name |-> "ControlVectorScaled", yaml |-> "control-vector-scaled", arg |-> "--control-vector-scaled", typ |-> "[]string"],
    [name |-> "ControlVectorLayerRange", yaml |-> "control-vector-layer-range", arg |-> "--control-vector-layer-range", typ |-> "string"],
    [name |-> "MmProj", yaml |-> "mmproj", arg |-> "--mmproj", typ |-> "string"],
    [name |-> "MmProjUrl", yaml |-> "mmproj-url", arg |-> "--mmproj-url", typ |-> "string"],
    [name |-> "NoMmProj", yaml |-> "no-mmproj", arg |-> "--no-mmproj", typ |-> "bool"],
    [name |-> "NoMmProjOffload", yaml |-> "no-mmproj-offload", arg |-> "--no-mmproj-offload", typ |-> "bool"],
    [name |-> "ContBatching", yaml |-> "cont-batching", arg |-> "--cont-batching", typ |-> "bool"],
    [name |-> "NoContBatching", yaml |-> "no-cont-batching", arg |-> "--no-cont-batching", typ |-> "bool"],
    [name |-> "Metrics", yaml |-> "metrics", arg |-> "--metrics", typ |-> "bool"],
    [name |-> "Slots", yaml |-> "slots", arg |-> "--slots", typ |-> "bool"],
    [name |-> "NoSlots", yaml |-> "no-slots", arg |-> "--no-slots", typ |-> "bool"],
    [name |-> "SlotSavePath", yaml |-> "slot-save-path", arg |-> "--slot-save-path", typ |-> "string"],
    [name |-> "SlotPromptSimilarity", yaml |-> "slot-prompt-similarity", arg |-> "--slot-prompt-similarity", typ |-> "float64"],
    [name |-> "SwaCheckpoints", yaml |-> "swa-checkpoints", arg |-> "--swa-checkpoints", typ |-> "int"],
    [name |-> "ApiKey", yaml |-> "api-key", arg |-> "--api-key", typ |-> "string"],
    [name |-> "ApiKeyFile", yaml |-> "api-key-file", arg |-> "--api-key-file", typ |-> "string"],
    [name |-> "SslKeyFile", yaml |-> "ssl-key-file", arg |-> "--ssl-key-file", typ |-> "string"],
    [name |-> "SslCertFile", yaml |-> "ssl-cert-file", arg |-> "--ssl-cert-file", typ |-> "string"],
    [name |-> "ChatTemplate", yaml |-> "chat-template", arg |-> "--chat-template", typ |-> "string"],
    [name |-> "ChatTemplateFile", yaml |-> "chat-template-file", arg |-> "--chat-template-file", typ |-> "string"],
    [name |-> "ChatTemplateKwargs", yaml |-> "chat-template-kwargs", arg |-> "--chat-template-kwargs", typ |-> "string"],
    [name |-> "Jinja", yaml |-> "jinja", arg |-> "--jinja", typ |-> "bool"],
    [name |-> "NoPrefillAssistant", yaml |-> "no-prefill-assistant", arg |-> "--no-prefill-assistant", typ |-> "bool"],
    [name |-> "ReasoningFormat", yaml |-> "reasoning-format", arg |-> "--reasoning-format", typ |-> "string"],
    [name |-> "ReasoningBudget", yaml |-> "reasoning-budget", arg |-> "--reasoning-budget", typ |-> "int"],
    [name |-> "Embeddings", yaml |-> "embeddings", arg |-> "--embeddings", typ |-> "bool"],
    [name |-> "Reranking", yaml |-> "reranking", arg |-> "--reranking", typ |-> "bool"],
    [name |-> "Pooling", yaml |-> "pooling", arg |-> "--pooling", typ |-> "string"],
    [name |-> "CheckTensors", yaml |-> "check-tensors", arg |-> "--check-tensors", typ |-> "bool"],
    [name |-> "LogitBias", yaml |-> "logit-bias", arg |-> "--logit-bias", typ |-> "string"],
    [name |-> "ModelVocoder", yaml |-> "model-vocoder", arg |-> "--model-vocoder", typ |-> "string"],
    [name |-> "TTSUseGuideTokens", yaml |-> "tts-use-guide-tokens", arg |-> "--tts-use-guide-tokens", typ |-> "bool"],
    [name |-> "Verbose", yaml |-> "log-verbose", arg |-> "--log-verbose", typ |-> "bool"],
    [name |-> "LogDisable", yaml |-> "log-disable", arg |-> "--log-disable", typ |-> "bool"],
    [name |-> "LogFile", yaml |-> "log-file", arg |-> "--log-file", typ |-> "string"],
    [name |-> "LogColors", yaml |-> "log-colors", arg |-> "--log-colors", typ |-> "bool"],
    [name |-> "LogVerbosity", yaml |-> "log-verbosity", arg |-> "--log-verbosity", typ |-> "int"],
    [name |-> "LogPrefix", yaml |-> "log-prefix", arg |-> "--log-prefix", typ |-> "bool"],
    [name |-> "LogTimestamps", yaml |-> "log-timestamps", arg |-> "--log-timestamps", typ |-> "bool"],
    [name |-> "Predict", yaml |-> "n-predict", arg |-> "--n-predict", typ |-> "int"],
    [name |-> "ReversePrompt", yaml |-> "reverse-prompt", arg |-> "--reverse-prompt", typ |-> "string"],
    [name |-> "Special", yaml |-> "special", arg |-> "--special", typ |-> "bool"],
    [name |-> "NoWarmup", yaml |-> "no-warmup", arg |-> "--no-warmup", typ |-> "bool"],
    [name |-> "NoContextShift", yaml |-> "no-context-shift", arg |-> "--no-context-shift", typ |-> "bool"],
    [name |-> "ContextShift", yaml |-> "context-shift", arg |-> "--context-shift", typ |-> "bool"],
    [name |-> "Keep", yaml |-> "keep", arg |-> "--keep", typ |-> "int"],
    [name |-> "ModelDraft", yaml |-> "model-draft", arg |-> "--model-draft", typ |-> "string"],
    [name |-> "ThreadsDraft", yaml |-> "threads-draft", arg |-> "--threads-draft", typ |-> "int"],
    [name |-> "ThreadsBatchDraft", yaml |-> "threads-batch-draft", arg |-> "--threads-batch-draft", typ |-> "int"],
    [name |-> "ContextSizeDraft", yaml |-> "ctx-size-draft", arg |-> "--ctx-size-draft", typ |-> "int"],
    [name |-> "DeviceDraft", yaml |-> "device-draft", arg |-> "--device-draft", typ |-> "string"],
    [name |-> "GpuLayersDraft", yaml |-> "n-gpu-layers-draft", arg |-> "--n-gpu-layers-draft", typ |-> "int"],
    [name |-> "DraftMax", yaml |-> "draft-max", arg |-> "--draft-max", typ |-> "int"],
    [name |-> "DraftMin", yaml |-> "draft-min", arg |-> "--draft-min", typ |-> "int"],
    [name |-> "DraftPMin", yaml |-> "draft-p-min", arg |-> "--draft-p-min", typ |-> "float64"],
    [name |-> "SpecReplace", yaml |-> "spec-replace", arg |-> "--spec-replace", typ |-> "string"]
  >>

(***************************************************************************)
(* Values of the Go kinds.  A string and a bool are themselves, an int is  *)
(* an integer, a []string is [isNil, elems] (a nil slice differs from an   *)
(* empty one), and a float64 is its shortest round-trip decimal            *)
(* [neg, digs, dp]: the digits digs with the decimal point before digit    *)
(* dp+1, as strconv's decimalSlice holds it (digs = <<>> is 0.0).          *)
(***************************************************************************)
NilSlice == [isNil |-> TRUE, elems |-> <<>>]

Slice(s) == [isNil |-> FALSE, elems |-> s]

Float(neg, digs, dp) == [neg |-> neg, digs |-> digs, dp |-> dp]

Kind_NoFloat64(typ) ==
  CASE typ = "bool" -> "Bool"
    [] typ = "string" -> "String"
    [] typ = "int" -> "Int"
    [] typ = "[]string" -> "Slice"
    [] OTHER -> "Invalid"

Kind(typ) ==
  CASE typ = "bool" -> "Bool"
    [] typ = "string" -> "String"
    [] typ = "int" -> "Int"
    [] typ = "float64" -> "Float64"
    [] typ = "[]string" -> "Slice"
    [] OTHER -> "Invalid"

ElemKind(typ) == IF typ = "[]string" THEN "String" ELSE "Invalid"

ZeroValue(typ) ==
  CASE typ = "bool" -> FALSE
    [] typ = "string" -> ""
    [] typ = "int" -> 0
    [] typ = "float64" -> Float(FALSE, <<>>, 0)
    [] typ = "[]string" -> NilSlice

IsZero_IntNeverZero(typ, v) ==
  CASE typ = "bool" -> v = FALSE
    [] typ = "string" -> v = ""
    [] typ = "int" -> FALSE
    [] typ = "float64" -> v.digs = <<>>
    [] typ = "[]string" -> v.isNil

\* reflect.Value.IsZero for the kinds above
IsZero(typ, v) ==
  CASE typ = "bool" -> v = FALSE
    [] typ = "string" -> v = ""
    [] typ = "int" -> v = 0
    [] typ = "float64" -> v.digs = <<>>
    [] typ = "[]string" -> v.isNil

\* val.Field(i): a config is a function from some field names to values,
\* every other field holds the zero value of its type
FieldValue(cfg, f) ==
  IF f.name \in DOMAIN cfg THEN cfg[f.name] ELSE ZeroValue(f.typ)

Digit(d) ==
  CASE d = 0 -> "0" [] d = 1 -> "1" [] d = 2 -> "2" [] d = 3 -> "3"
    [] d = 4 -> "4" [] d = 5 -> "5" [] d = 6 -> "6" [] d = 7 -> "7"
    [] d = 8 -> "8" [] d = 9 -> "9"

RECURSIVE FormatUint(_)
FormatUint(n) ==
  IF n < 10 THEN Digit(n) ELSE FormatUint(n \div 10) \o Digit(n % 10)

FormatInt_Unsigned(n) == IF n < 0 THEN FormatUint(0 - n) ELSE FormatUint(n)

\* strconv.FormatInt(n, 10)
FormatInt(n) == IF n < 0 THEN "-" \o FormatUint(0 - n) ELSE FormatUint(n)

RECURSIVE Digits(_, _, _)
\* the characters of digits lo..hi of digs, "0" where digs has no digit
Digits(digs, lo, hi) ==
  IF lo > hi THEN ""
  ELSE (IF lo >= 1 /\ lo <= Len(digs) THEN Digit(digs[lo]) ELSE "0")
       \o Digits(digs, lo + 1, hi)

\* strconv %e with the shortest precision, exponent of at least two digits
FmtE(v) ==
  LET nd == Len(v.digs)
      exp == v.dp - 1
      mag == IF exp < 0 THEN 0 - exp ELSE exp
  IN (IF v.neg THEN "-" ELSE "")
     \o Digit(v.digs[1])
     \o (IF nd > 1 THEN "." \o Digits(v.digs, 2, nd) ELSE "")
     \o "e" \o (IF exp < 0 THEN "-" ELSE "+")
     \o (IF mag < 10 THEN "0" ELSE "") \o FormatUint(mag)

\* strconv %f with max(nd-dp, 0) fraction digits
FmtF(v) ==
  LET nd == Len(v.digs)
      prec == IF nd - v.dp > 0 THEN nd - v.dp ELSE 0
  IN (IF v.neg THEN "-" ELSE "")
     \o (IF v.dp > 0 THEN Digits(v.digs, 1, v.dp) ELSE "0")
     \o (IF prec > 0 THEN "." \o Digits(v.digs, v.dp + 1, v.dp + prec) ELSE "")

\* fmt.Sprintf("%g", x): %e when the exponent is < -4 or >= 6
FormatG(v) ==
  LET exp == v.dp - 1
  IN IF exp < -4 \/ exp >= 6 THEN FmtE(v) ELSE FmtF(v)

SlicePairs_FlagOnce(argTag, elems, j) ==
  IF j > Len(elems) THEN <<>> ELSE <<argTag>> \o elems

RECURSIVE SlicePairs(_, _, _)
\* lines 420-422: the flag once per element, from element j on
SlicePairs(argTag, elems, j) ==
  IF j > Len(elems) THEN <<>>
  ELSE <<argTag, elems[j]>> \o SlicePairs(argTag, elems, j + 1)

FieldArgs_BoolWithValue(cfg, f) ==
  LET v == FieldValue(cfg, f)
      k == Kind(f.typ)
  IN IF f.arg = "" THEN [args |-> <<>>, err |-> "nil"]
     ELSE IF IsZero(f.typ, v) THEN [args |-> <<>>, err |-> "nil"]
     ELSE CASE k = "Bool" ->
                 [args |-> IF v THEN <<f.arg, "true">> ELSE <<>>, err |-> "nil"]
            [] k = "String" -> [args |-> <<f.arg, v>>, err |-> "nil"]
            [] k = "Int" -> [args |-> <<f.arg, FormatInt(v)>>, err |-> "nil"]
            [] k = "Float64" -> [args |-> <<f.arg, FormatG(v)>>, err |-> "nil"]
            [] k = "Slice" ->
                 [args |-> IF ElemKind(f.typ) = "String"
                             THEN SlicePairs(f.arg, v.elems, 1) ELSE <<>>,
                  err |-> "nil"]
            [] OTHER -> [args |-> <<>>, err |-> "unsupported config field type"]

\* the configuration key written where the flag belongs
FieldArgs_KeyAsFlag(cfg, f) ==
  LET v == FieldValue(cfg, f)
      k == Kind(f.typ)
  IN IF f.arg = "" THEN [args |-> <<>>, err |-> "nil"]
     ELSE IF IsZero(f.typ, v) THEN [args |-> <<>>, err |-> "nil"]
     ELSE CASE k = "Bool" ->
                 [args |-> IF v THEN <<f.yaml>> ELSE <<>>, err |-> "nil"]
            [] k = "String" -> [args |-> <<f.yaml, v>>, err |-> "nil"]
            [] k = "Int" -> [args |-> <<f.yaml, FormatInt(v)>>, err |-> "nil"]
            [] k = "Float64" -> [args |-> <<f.yaml, FormatG(v)>>, err |-> "nil"]
            [] k = "Slice" ->
                 [args |-> IF ElemKind(f.typ) = "String"
                             THEN SlicePairs(f.yaml, v.elems, 1) ELSE <<>>,
                  err |-> "nil"]
            [] OTHER -> [args |-> <<>>, err |-> "unsupported config field type"]

\* Threads rendered under the flag of Port
FieldArgs_SharedFlag(cfg, f) ==
  LET v == FieldValue(cfg, f)
      k == Kind(f.typ)
      flag == IF f.name = "Threads" THEN "--port" ELSE f.arg
  IN IF flag = "" THEN [args |-> <<>>, err |-> "nil"]
     ELSE IF IsZero(f.typ, v) THEN [args |-> <<>>, err |-> "nil"]
     ELSE CASE k = "Bool" ->
                 [args |-> IF v THEN <<flag>> ELSE <<>>, err |-> "nil"]
            [] k = "String" -> [args |-> <<flag, v>>, err |-> "nil"]
            [] k = "Int" -> [args |-> <<flag, FormatInt(v)>>, err |-> "nil"]
            [] k = "Float64" -> [args |-> <<flag, FormatG(v)>>, err |-> "nil"]
            [] k = "Slice" ->
                 [args |-> IF ElemKind(f.typ) = "String"
                             THEN SlicePairs(flag, v.elems, 1) ELSE <<>>,
                  err |-> "nil"]
            [] OTHER -> [args |-> <<>>, err |-> "unsupported config field type"]

\* lines 391-426: what one field of the struct appends to args
FieldArgs(cfg, f) ==
  LET v == FieldValue(cfg, f)
      k == Kind(f.typ)
  IN IF f.arg = "" THEN [args |-> <<>>, err |-> "nil"]
     ELSE IF IsZero(f.typ, v) THEN [args |-> <<>>, err |-> "nil"]
     ELSE CASE k = "Bool" ->
                 [args |-> IF v THEN <<f.arg>> ELSE <<>>, err |-> "nil"]
            [] k = "String" -> [args |-> <<f.arg, v>>, err |-> "nil"]
            [] k = "Int" -> [args |-> <<f.arg, FormatInt(v)>>, err |-> "nil"]
            [] k = "Float64" -> [args |-> <<f.arg, FormatG(v)>>, err |-> "nil"]
            [] k = "Slice" ->
                 [args |-> IF ElemKind(f.typ) = "String"
                             THEN SlicePairs(f.arg, v.elems, 1) ELSE <<>>,
                  err |-> "nil"]
            [] OTHER -> [args |-> <<>>, err |-> "unsupported config field type"]

RECURSIVE FieldsArgs_Reversed(_, _, _)
FieldsArgs_Reversed(cfg, lo, hi) ==
  IF lo > hi THEN <<>>
  ELSE IF lo = hi THEN FieldArgs(cfg, LlamaConfig[lo]).args
  ELSE LET mid == (lo + hi) \div 2
       IN FieldsArgs_Reversed(cfg, mid + 1, hi) \o FieldsArgs_Reversed(cfg, lo, mid)

RECURSIVE FieldsArgs(_, _, _)
\* lines 388-427: what fields lo..hi append, in declaration order (the range
\* is split in halves to keep the evaluation shallow)
FieldsArgs(cfg, lo, hi) ==
  IF lo > hi THEN <<>>
  ELSE IF lo = hi THEN FieldArgs(cfg, LlamaConfig[lo]).args
  ELSE LET mid == (lo + hi) \div 2
       IN FieldsArgs(cfg, lo, mid) \o FieldsArgs(cfg, mid + 1, hi)

\* buildArgs(config): the argument vector and the error
buildArgs(cfg) ==
  LET bad == {i \in 1 .. Len(LlamaConfig) : FieldArgs(cfg, LlamaConfig[i]).err # "nil"}
  IN IF bad # {}
       THEN [args |-> <<>>,
             err |-> FieldArgs(cfg, LlamaConfig[CHOOSE i \in bad : \A j \in bad : i <= j]).err]
       ELSE [args |-> FieldsArgs(cfg, 1, Len(LlamaConfig)), err |-> "nil"]

(***************************************************************************)
(* formatArgsForDisplay, lines 433-461.  Here an argument is the sequence   *)
(* of its characters, and so is the text returned.                         *)
(***************************************************************************)
\* unicode.IsSpace, for the characters used here
IsSpace(c) == c \in {" ", "\t", "\n"}

\* lines 454-461
containsSpace(s) == \E k \in DOMAIN s : IsSpace(s[k])

\* strings.HasPrefix
HasPrefix(s, prefix) ==
  Len(s) >= Len(prefix) /\ SubSeq(s, 1, Len(prefix)) = prefix

RECURSIVE formatArgsFrom(_, _, _)
\* lines 435-449: the loop from index i on, result being the text so far
formatArgsFrom(a, i, result) ==
  IF i > Len(a) THEN result
  ELSE LET arg == IF containsSpace(a[i]) THEN <<"\"">> \o a[i] \o <<"\"">>
                  ELSE a[i]
           sep == IF i > 1 /\ HasPrefix(arg, <<"-", "-">>)
                    THEN <<" ", "\\", "\n", " ", " ", " ", " ">>
                  ELSE IF i > 1 THEN <<" ">>
                  ELSE <<>>
       IN formatArgsFrom(a, i + 1, result \o sep \o arg)

formatArgsForDisplay(a) == formatArgsFrom(a, 1, <<>>)

(***************************************************************************)
(* The launcher's surroundings: configurations, files, environment         *)
(***************************************************************************)
Signals == {"SIGINT", "SIGTERM"}            \* signal.Notify, line 328

ChildKillSignals == {"SIGINT", "SIGTERM", "SIGKILL"}

MaxExitCode == 255                          \* exit status of a process: 8 bits

ExitCodes == 0 .. MaxExitCode

NoCode == 0 - 1

NoSignal == [id |-> 0, sig |-> "none"]

NoStatus == [exited |-> FALSE, code |-> 0, sig |-> "none"]

defaultPath == "./config.yaml"              \* line 254

Configs ==
  [ScenarioA |-> [ModelPath |-> "/m.gguf", Port |-> 8080, Threads |-> 4],
   Lora      |-> [LoraAdapters |-> Slice(<<"a.bin", "b.bin">>), NoWebUI |-> TRUE],
   Empty     |-> <<>>]

NoEnv == [LLAMA_CONFIG_PATH |-> "", XDG_CONFIG_HOME |-> "", HOME |-> ""]

NoFiles == <<>>

\* the runs of the launcher that are explored: command line, environment, files
LaunchInputs ==
  { [osArgs |-> <<"llauncher", "--help">>, env |-> NoEnv, files |-> NoFiles],
    [osArgs |-> <<"llauncher", "--help", "--config", "/etc/a.yaml">>,
     env |-> NoEnv, files |-> [p \in {"/etc/a.yaml"} |-> "ScenarioA"]],
    [osArgs |-> <<"llauncher", "--help", "--debug">>,
     env |-> [NoEnv EXCEPT !.HOME = "/root"],
     files |-> [p \in {"/root/.config/llauncher.yaml"} |-> "Lora"]],
    [osArgs |-> <<"llauncher", "--config", "/etc/a.yaml">>, env |-> NoEnv,
     files |-> [p \in {"/etc/a.yaml"} |-> "ScenarioA"]],
    [osArgs |-> <<"llauncher", "--debug">>,
     env |-> [NoEnv EXCEPT !.HOME = "/root"],
     files |-> [p \in {"/root/.config/llauncher.yaml"} |-> "Lora"]],
    [osArgs |-> <<"llauncher">>, env |-> NoEnv, files |-> NoFiles],
    [osArgs |-> <<"llauncher">>,
     env |-> [NoEnv EXCEPT !.LLAMA_CONFIG_PATH = "/tmp/bad.yaml"],
     files |-> [p \in {"/tmp/bad.yaml"} |-> "bad"]] }

\* os.Stat(p) succeeds
Exists(fs, p) == p \in DOMAIN fs /\ fs[p] # "missing"

\* lines 256-262
XdgConfigHome(e) ==
  IF e.XDG_CONFIG_HOME # "" THEN e.XDG_CONFIG_HOME
  ELSE IF e.HOME # "" THEN e.HOME \o "/.config"
  ELSE ""

\* LLAMA_CONFIG_PATH taken before the --config flag
CandidatePaths_EnvOverFlag(a, e) ==
  LET xdg == XdgConfigHome(e)
      byXdg == IF xdg # ""
                 THEN <<xdg \o "/llauncher/config.yaml", xdg \o "/llauncher.yaml">>
                 ELSE <<>>
      flagAt == {i \in 2 .. Len(a) - 1 : a[i] = "--config"}
      byFlag == IF flagAt # {}
                  THEN <<a[(CHOOSE i \in flagAt : \A j \in flagAt : i <= j) + 1]>>
                  ELSE byXdg
  IN IF e.LLAMA_CONFIG_PATH # "" THEN <<e.LLAMA_CONFIG_PATH>> ELSE byFlag

\* the --config path put in front of the other candidates
CandidatePaths_FlagThenRest(a, e) ==
  LET xdg == XdgConfigHome(e)
      byXdg == IF xdg # ""
                 THEN <<xdg \o "/llauncher/config.yaml", xdg \o "/llauncher.yaml">>
                 ELSE <<>>
      byEnv == IF e.LLAMA_CONFIG_PATH # "" THEN <<e.LLAMA_CONFIG_PATH>> ELSE byXdg
      flagAt == {i \in 2 .. Len(a) - 1 : a[i] = "--config"}
  IN IF flagAt # {}
       THEN <<a[(CHOOSE i \in flagAt : \A j \in flagAt : i <= j) + 1]>> \o byEnv
       ELSE byEnv

\* lines 264-279
CandidatePaths(a, e) ==
  LET xdg == XdgConfigHome(e)
      byXdg == IF xdg # ""
                 THEN <<xdg \o "/llauncher/config.yaml", xdg \o "/llauncher.yaml">>
                 ELSE <<>>
      byEnv == IF e.LLAMA_CONFIG_PATH # "" THEN <<e.LLAMA_CONFIG_PATH>> ELSE byXdg
      flagAt == {i \in 2 .. Len(a) - 1 : a[i] = "--config"}
  IN IF flagAt # {}
       THEN <<a[(CHOOSE i \in flagAt : \A j \in flagAt : i <= j) + 1]>>
       ELSE byEnv

RECURSIVE FirstExisting(_, _, _)
\* lines 281-287
FirstExisting(fs, paths, i) ==
  IF i > Len(paths) THEN defaultPath
  ELSE IF Exists(fs, paths[i]) THEN paths[i]
  ELSE FirstExisting(fs, paths, i + 1)

\* lines 238, 244-249
HelpRequested(a) == Len(a) > 1 /\ a[2] = "--help"

DebugRequested(a) == \E i \in 1 .. Len(a) : a[i] = "--debug"

\* loadConfig(path): the decoded config and the error
loadConfig(fs, path) ==
  IF ~Exists(fs, path) THEN [config |-> <<>>, err |-> "could not read yaml file"]
  ELSE IF fs[path] = "bad" THEN [config |-> <<>>, err |-> "could not unmarshal yaml"]
  ELSE [config |-> Configs[fs[path]], err |-> "nil"]

\* ExitStatus with a signal-terminated process reported as status 0
ExitStatus_ZeroWhenSignaled(ws) == IF ws.exited THEN ws.code ELSE 0

\* syscall.WaitStatus.ExitStatus(): -1 unless the process exited normally
ExitStatus(ws) == IF ws.exited THEN ws.code ELSE 0 - 1

\* exec.Cmd.Wait(): an *ExitError unless the process exited with status 0
WaitErr(ws) == IF ws.exited /\ ws.code = 0 THEN "nil" ELSE "ExitError"

\* the exit status a parent sees after os.Exit(code): its low 8 bits
osExit(code) == code % (MaxExitCode + 1)

Alive == exitVia = "none"

\* the supervisor's state of spec section 4.2, read off the program counter
SupState ==
  CASE pc \in {"starting", "publish"} -> "Spawning"
    [] pc = "wait" -> "Running"
    [] pc = "done" /\ spawnAttempts > 0 ->
         (IF runErr = "other" THEN "SpawnFailed"
          ELSE IF waitStatus.exited THEN "Exited"
          ELSE "SignalTerminated")
    [] OTHER -> "NotStarted"

SigChanCap == 1                             \* make(chan os.Signal, 1), line 327

\* mainExit with every failure of cmd.Run() ending in os.Exit(1)
mainExit_AnyErrorIsOne(err, ws) ==
  IF err = "nil" THEN [via |-> "return", code |-> 0]
  ELSE [via |-> "os.Exit", code |-> osExit(1)]

\* mainExit without the *ExitError type test: every error takes the wait status
mainExit_NoTypeTest(err, ws) ==
  IF err = "nil" THEN [via |-> "return", code |-> 0]
  ELSE [via |-> "os.Exit", code |-> osExit(ExitStatus(ws))]

\* mainExit that ends with 130 once the launcher has received a signal
mainExit_InterruptedIs130(err, ws) ==
  IF received # <<>> THEN [via |-> "os.Exit", code |-> osExit(130)]
  ELSE IF err = "nil" THEN [via |-> "return", code |-> 0]
  ELSE IF err = "ExitError"
    THEN [via |-> "os.Exit", code |-> osExit(ExitStatus(ws))]
  ELSE [via |-> "os.Exit", code |-> osExit(1)]

\* lines 343-361: how main ends for the error of cmd.Run() and the wait status
mainExit(err, ws) ==
  IF err = "nil" THEN [via |-> "return", code |-> 0]
  ELSE IF err = "ExitError"
    THEN [via |-> "os.Exit", code |-> osExit(ExitStatus(ws))]
  ELSE [via |-> "os.Exit", code |-> osExit(1)]

\* the process ends
Exit(via, code) ==
  /\ exitVia' = via
  /\ exitCode' = code
  /\ pc' = "done"

(***************************************************************************)
(* Init: the process has started, main has not run yet                    *)
(***************************************************************************)
Init ==
  /\ \E in \in LaunchInputs :
       /\ osArgs = in.osArgs
       /\ env = in.env
       /\ files = in.files
  /\ pc = "start"
  /\ debugMode = FALSE
  /\ helpShown = FALSE
  /\ configFile = ""
  /\ config = <<>>
  /\ loadErr = "unset"
  /\ buildErr = "unset"
  /\ built = FALSE
  /\ args = <<>>
  /\ spawnArgv = <<>>
  /\ notified = FALSE
  /\ sigChan = <<>>
  /\ relayPc = "none"
  /\ relaySig = NoSignal
  /\ cmdProcess = "nil"
  /\ runErr = "nil"
  /\ waitStatus = NoStatus
  /\ childState = "none"
  /\ childStatus = NoStatus
  /\ childSignals = <<>>
  /\ received = <<>>
  /\ spawnAttempts = 0
  /\ exitVia = "none"
  /\ exitCode = NoCode
  /\ shown = <<>>

(***************************************************************************)
(* main(), lines 236-362, one action per step of the main goroutine        *)
(***************************************************************************)
\* showHelp that returns to main
CheckHelp_HelpDoesNotExit ==
  /\ Alive /\ pc = "start"
  /\ IF HelpRequested(osArgs)
       THEN /\ helpShown' = TRUE
            /\ debugMode' = DebugRequested(osArgs)
            /\ pc' = "resolve"
            /\ UNCHANGED <<exitVia, exitCode>>
       ELSE /\ debugMode' = DebugRequested(osArgs)
            /\ pc' = "resolve"
            /\ UNCHANGED <<helpShown, exitVia, exitCode>>
  /\ UNCHANGED <<shown, osArgs, env, files, configFile, config, loadErr, buildErr, built, args,
                 spawnArgv, notified, sigChan, relayPc, relaySig, cmdProcess,
                 runErr, waitStatus, childState, childStatus, childSignals,
                 received, spawnAttempts>>

\* lines 238-249: --help, then debugMode
CheckHelp ==
  /\ Alive /\ pc = "start"
  /\ IF HelpRequested(osArgs)
       THEN /\ helpShown' = TRUE
            /\ Exit("os.Exit", 0)
            /\ UNCHANGED debugMode
       ELSE /\ debugMode' = DebugRequested(osArgs)
            /\ pc' = "resolve"
            /\ UNCHANGED <<helpShown, exitVia, exitCode>>
  /\ UNCHANGED <<shown, osArgs, env, files, configFile, config, loadErr, buildErr, built, args,
                 spawnArgv, notified, sigChan, relayPc, relaySig, cmdProcess,
                 runErr, waitStatus, childState, childStatus, childSignals,
                 received, spawnAttempts>>

\* lines 251-287: the configuration file path
ResolveConfig ==
  /\ Alive /\ pc = "resolve"
  /\ configFile' = FirstExisting(files, CandidatePaths(osArgs, env), 1)
  /\ pc' = "load"
  /\ UNCHANGED <<shown, osArgs, env, files, debugMode, helpShown, config, loadErr, buildErr, built, args,
                 spawnArgv, notified, sigChan, relayPc, relaySig, cmdProcess,
                 runErr, waitStatus, childState, childStatus, childSignals,
                 received, spawnAttempts, exitVia, exitCode>>

\* lines 293-299: loadConfig, showHelp() on failure
LoadConfig ==
  /\ Alive /\ pc = "load"
  /\ LET r == loadConfig(files, configFile)
     IN IF r.err # "nil"
          THEN /\ loadErr' = r.err
               /\ helpShown' = TRUE
               /\ Exit("os.Exit", 0)
               /\ UNCHANGED config
          ELSE /\ loadErr' = r.err
               /\ config' = r.config
               /\ pc' = "build"
               /\ UNCHANGED <<helpShown, exitVia, exitCode>>
  /\ UNCHANGED <<shown, osArgs, env, files, debugMode, configFile, buildErr, built, args,
                 spawnArgv, notified, sigChan, relayPc, relaySig, cmdProcess,
                 runErr, waitStatus, childState, childStatus, childSignals,
                 received, spawnAttempts>>

\* lines 302-308: buildArgs, os.Exit(1) on failure
BuildArgs ==
  /\ Alive /\ pc = "build"
  /\ built' = TRUE
  /\ buildErr' = buildArgs(config).err
  /\ LET r == buildArgs(config)
     IN IF r.err # "nil"
          THEN /\ Exit("os.Exit", osExit(1))
               /\ UNCHANGED args
          ELSE /\ args' = r.args
               /\ pc' = "command"
               /\ UNCHANGED <<exitVia, exitCode>>
  /\ UNCHANGED <<shown, osArgs, env, files, debugMode, helpShown, configFile, config,
                 loadErr, spawnArgv, notified, sigChan, relayPc, relaySig, cmdProcess,
                 runErr, waitStatus, childState, childStatus, childSignals,
                 received, spawnAttempts>>

\* Command with the program name repeated as the first argument
Command_RepeatsName ==
  /\ Alive /\ pc = "command"
  /\ spawnArgv' = <<"llama-server", <<"llama-server">> \o args>>
  /\ pc' = "notify"
  /\ UNCHANGED <<shown, osArgs, env, files, debugMode, helpShown, configFile, config,
                 loadErr, buildErr, built, args, notified, sigChan, relayPc,
                 relaySig, cmdProcess, runErr, waitStatus, childState,
                 childStatus, childSignals, received, spawnAttempts, exitVia,
                 exitCode>>

\* lines 320-324: cmd := execCommand("llama-server", args...)
Command ==
  /\ Alive /\ pc = "command"
  /\ spawnArgv' = <<"llama-server", args>>
  /\ pc' = "notify"
  /\ UNCHANGED <<shown, osArgs, env, files, debugMode, helpShown, configFile, config,
                 loadErr, buildErr, built, args, notified, sigChan, relayPc, relaySig, cmdProcess,
                 runErr, waitStatus, childState, childStatus, childSignals,
                 received, spawnAttempts, exitVia, exitCode>>

\* lines 327-328: sigChan, signal.Notify
Notify ==
  /\ Alive /\ pc = "notify"
  /\ notified' = TRUE
  /\ sigChan' = <<>>
  /\ pc' = "go"
  /\ UNCHANGED <<shown, osArgs, env, files, debugMode, helpShown, configFile, config,
                 loadErr, buildErr, built, args, spawnArgv, relayPc, relaySig, cmdProcess,
                 runErr, waitStatus, childState, childStatus, childSignals,
                 received, spawnAttempts, exitVia, exitCode>>

\* line 330: go func() { ... }()
GoRelay ==
  /\ Alive /\ pc = "go"
  /\ relayPc' = "recv"
  /\ pc' = "run"
  /\ UNCHANGED <<shown, osArgs, env, files, debugMode, helpShown, configFile, config,
                 loadErr, buildErr, built, args, spawnArgv, notified, sigChan, relaySig,
                 cmdProcess, runErr, waitStatus, childState, childStatus,
                 childSignals, received, spawnAttempts, exitVia, exitCode>>

\* line 341: cmd.Run() is entered, it calls cmd.Start()
RunBegin ==
  /\ Alive /\ pc = "run"
  /\ spawnAttempts' = spawnAttempts + 1
  /\ pc' = "starting"
  /\ UNCHANGED <<shown, osArgs, env, files, debugMode, helpShown, configFile, config,
                 loadErr, buildErr, built, args, spawnArgv, notified, sigChan, relayPc, relaySig,
                 cmdProcess, runErr, waitStatus, childState, childStatus,
                 childSignals, received, exitVia, exitCode>>

\* StartProcess with a failed start tried again
StartProcess_Retries ==
  /\ Alive /\ pc = "starting"
  /\ \E ok \in BOOLEAN :
       IF ok
         THEN /\ childState' = "running"
              /\ pc' = "publish"
         ELSE /\ pc' = "run"
              /\ UNCHANGED childState
  /\ UNCHANGED <<shown, osArgs, env, files, debugMode, helpShown, configFile, config,
                 loadErr, buildErr, built, args, spawnArgv, notified, sigChan, relayPc,
                 relaySig, cmdProcess, runErr, waitStatus, childStatus,
                 childSignals, received, spawnAttempts, exitVia, exitCode>>

\* cmd.Start(): the executable is looked up and the process is created; the
\* child runs from here on, or Start returns an error that is no *ExitError
\* and main ends on it (lines 351-356)
StartProcess ==
  /\ Alive /\ pc = "starting"
  /\ \E ok \in BOOLEAN :
       IF ok
         THEN /\ childState' = "running"
              /\ pc' = "publish"
              /\ UNCHANGED runErr
              /\ UNCHANGED <<exitVia, exitCode>>
         ELSE /\ runErr' = "other"
              /\ LET e == mainExit("other", waitStatus) IN Exit(e.via, e.code)
              /\ UNCHANGED childState
  /\ UNCHANGED <<shown, osArgs, env, files, debugMode, helpShown, configFile, config,
                 loadErr, buildErr, built, args, spawnArgv, notified, sigChan, relayPc, relaySig,
                 cmdProcess, waitStatus, childStatus, childSignals, received,
                 spawnAttempts>>

\* cmd.Start(): c.Process is assigned once os.StartProcess has returned
PublishProcess ==
  /\ Alive /\ pc = "publish"
  /\ cmdProcess' = "proc"
  /\ pc' = "wait"
  /\ UNCHANGED <<shown, osArgs, env, files, debugMode, helpShown, configFile, config,
                 loadErr, buildErr, built, args, spawnArgv, notified, sigChan, relayPc, relaySig,
                 runErr, waitStatus, childState, childStatus, childSignals,
                 received, spawnAttempts, exitVia, exitCode>>

\* Wait without the blocking: cmd.Run() returns though the child still runs
Wait_DoesNotBlock ==
  /\ Alive /\ pc = "wait"
  /\ waitStatus' = childStatus
  /\ runErr' = WaitErr(childStatus)
  /\ LET e == mainExit(WaitErr(childStatus), childStatus) IN Exit(e.via, e.code)
  /\ UNCHANGED <<shown, osArgs, env, files, debugMode, helpShown, configFile, config,
                 loadErr, buildErr, built, args, spawnArgv, notified, sigChan,
                 relayPc, relaySig, cmdProcess, childState, childStatus,
                 childSignals, received, spawnAttempts>>

\* cmd.Wait() blocks until the child has terminated and reaps it; cmd.Run()
\* returns and main ends on its result (lines 343-362)
Wait ==
  /\ Alive /\ pc = "wait"
  /\ childState \in {"exited", "signaled"}
  /\ waitStatus' = childStatus
  /\ runErr' = WaitErr(childStatus)
  /\ LET e == mainExit(WaitErr(childStatus), childStatus) IN Exit(e.via, e.code)
  /\ UNCHANGED <<shown, osArgs, env, files, debugMode, helpShown, configFile, config,
                 loadErr, buildErr, built, args, spawnArgv, notified, sigChan,
                 relayPc, relaySig, cmdProcess, childState, childStatus,
                 childSignals, received, spawnAttempts>>

(***************************************************************************)
(* The relay goroutine, lines 330-338                                      *)
(***************************************************************************)
SetFate(id, fate) == [received EXCEPT ![id].fate = fate]

\* line 331: sig := <-sigChan
RelayRecv ==
  /\ Alive /\ relayPc = "recv"
  /\ sigChan # <<>>
  /\ relaySig' = Head(sigChan)
  /\ sigChan' = Tail(sigChan)
  /\ received' = SetFate(Head(sigChan).id, "held")
  /\ relayPc' = "check"
  /\ UNCHANGED <<shown, osArgs, env, files, pc, debugMode, helpShown, configFile,
                 config, loadErr, buildErr, built, args, spawnArgv, notified, cmdProcess, runErr,
                 waitStatus, childState, childStatus, childSignals,
                 spawnAttempts, exitVia, exitCode>>

\* RelayCheck that reads cmd.Process again until it is set
RelayCheck_WaitsForHandle ==
  /\ Alive /\ relayPc = "check"
  /\ relayPc' = IF cmdProcess = "nil" THEN "check" ELSE "signal"
  /\ received' =
       [received EXCEPT
          ![relaySig.id].read =
             IF @ # "unread" THEN @
             ELSE IF cmdProcess = "nil" THEN "unpublished" ELSE "published"]
  /\ UNCHANGED <<shown, osArgs, env, files, pc, debugMode, helpShown, configFile,
                 config, loadErr, buildErr, built, args, spawnArgv, notified, sigChan,
                 relaySig, cmdProcess, runErr, waitStatus, childState,
                 childStatus, childSignals, spawnAttempts, exitVia, exitCode>>

\* line 335: if cmd.Process != nil; the goroutine ends when it reads nil.
\* Nothing orders this read and the write in cmd.Start(): it yields nil or
\* the handle as the two steps happen to interleave.
RelayCheck ==
  /\ Alive /\ relayPc = "check"
  /\ relayPc' = IF cmdProcess = "nil" THEN "done" ELSE "signal"
  /\ received' =
       [received EXCEPT
          ![relaySig.id].read = IF cmdProcess = "nil" THEN "unpublished"
                                ELSE "published",
          ![relaySig.id].fate = IF cmdProcess = "nil" THEN "dropped_nil"
                                ELSE "held"]
  /\ UNCHANGED <<shown, osArgs, env, files, pc, debugMode, helpShown, configFile,
                 config, loadErr, buildErr, built, args, spawnArgv, notified, sigChan, relaySig,
                 cmdProcess, runErr, waitStatus, childState, childStatus,
                 childSignals, spawnAttempts, exitVia, exitCode>>

\* the relay going back to the receive after it has signalled
RelaySignal_Loops ==
  /\ Alive /\ relayPc = "signal"
  /\ IF childState = "running"
       THEN /\ childSignals' = Append(childSignals, relaySig)
            /\ received' = SetFate(relaySig.id, "forwarded")
       ELSE /\ received' = SetFate(relaySig.id, "late")
            /\ UNCHANGED childSignals
  /\ relayPc' = "recv"
  /\ UNCHANGED <<shown, osArgs, env, files, pc, debugMode, helpShown, configFile,
                 config, loadErr, buildErr, built, args, spawnArgv, notified, sigChan, relaySig,
                 cmdProcess, runErr, waitStatus, childState, childStatus,
                 spawnAttempts, exitVia, exitCode>>

\* line 336: cmd.Process.Signal(sig); a process that has terminated gets
\* nothing.  The goroutine ends after it.
RelaySignal ==
  /\ Alive /\ relayPc = "signal"
  /\ IF childState = "running"
       THEN /\ childSignals' = Append(childSignals, relaySig)
            /\ received' = SetFate(relaySig.id, "forwarded")
       ELSE /\ received' = SetFate(relaySig.id, "late")
            /\ UNCHANGED childSignals
  /\ relayPc' = "done"
  /\ UNCHANGED <<shown, osArgs, env, files, pc, debugMode, helpShown, configFile,
                 config, loadErr, buildErr, built, args, spawnArgv, notified, sigChan, relaySig,
                 cmdProcess, runErr, waitStatus, childState, childStatus,
                 spawnAttempts, exitVia, exitCode>>

(***************************************************************************)
(* The surroundings: signals sent to the launcher, the child's end         *)
(***************************************************************************)
\* SIGINT or SIGTERM reaches the launcher.  Before signal.Notify the default
\* disposition ends the process; after it the runtime sends on sigChan
\* without blocking, and drops the signal when the channel is full.
DeliverSignal(s) ==
  /\ Alive
  /\ Len(received) < MaxSignals
  /\ LET id == Len(received) + 1
         rec(fate) == [sig |-> s, sup |-> SupState, pub |-> cmdProcess # "nil",
                       read |-> "unread", fate |-> fate]
     IN IF ~notified
          THEN /\ received' = Append(received, rec("default"))
               /\ Exit("signal", NoCode)
               /\ UNCHANGED sigChan
        ELSE IF Len(sigChan) < SigChanCap
          THEN /\ received' = Append(received, rec("queued"))
               /\ sigChan' = Append(sigChan, [id |-> id, sig |-> s])
               /\ UNCHANGED <<pc, exitVia, exitCode>>
        ELSE /\ received' = Append(received, rec("dropped_full"))
             /\ UNCHANGED <<sigChan, pc, exitVia, exitCode>>
  /\ UNCHANGED <<shown, osArgs, env, files, debugMode, helpShown, configFile, config,
                 loadErr, buildErr, built, args, spawnArgv, notified, relayPc, relaySig,
                 cmdProcess, runErr, waitStatus, childState, childStatus,
                 childSignals, spawnAttempts>>

\* llama-server exits with code c
ChildExit(c) ==
  /\ childState = "running"
  /\ childState' = "exited"
  /\ childStatus' = [exited |-> TRUE, code |-> c, sig |-> "none"]
  /\ UNCHANGED <<shown, osArgs, env, files, pc, debugMode, helpShown, configFile,
                 config, loadErr, buildErr, built, args, spawnArgv, notified, sigChan, relayPc,
                 relaySig, cmdProcess, runErr, waitStatus, childSignals,
                 received, spawnAttempts, exitVia, exitCode>>

\* llama-server is terminated by signal s
ChildKilled(s) ==
  /\ childState = "running"
  /\ childState' = "signaled"
  /\ childStatus' = [exited |-> FALSE, code |-> 0, sig |-> s]
  /\ UNCHANGED <<shown, osArgs, env, files, pc, debugMode, helpShown, configFile,
                 config, loadErr, buildErr, built, args, spawnArgv, notified, sigChan, relayPc,
                 relaySig, cmdProcess, runErr, waitStatus, childSignals,
                 received, spawnAttempts, exitVia, exitCode>>

Next ==
  \/ CheckHelp
  \/ ResolveConfig
  \/ LoadConfig
  \/ BuildArgs
  \/ Command
  \/ Notify
  \/ GoRelay
  \/ RunBegin
  \/ StartProcess
  \/ PublishProcess
  \/ Wait
  \/ RelayRecv
  \/ RelayCheck
  \/ RelaySignal
  \/ \E s \in Signals : DeliverSignal(s)
  \/ \E c \in ExitCodes : ChildExit(c)
  \/ \E s \in ChildKillSignals : ChildKilled(s)

Spec == Init /\ [][Next]_vars

(***************************************************************************)
(* buildArgs on its own: main stands before line 302 with a decoded        *)
(* configuration drawn from BuildConfigs, and calls buildArgs              *)
(***************************************************************************)
MaxListLen == 2        \* elements of a []string field

ListElems == {"a.bin", "b.bin"}

StringValues == {"", "/m.gguf", "my model.gguf", "--x"}

IntValues == {0, 4, 8080, 0 - 12}

FloatValues ==
  {Float(FALSE, <<>>, 0), Float(FALSE, <<5>>, 0), Float(TRUE, <<1, 2, 5>>, 1)}

ListValues ==
  {NilSlice} \cup
  {Slice(q) : q \in UNION {[1 .. k -> ListElems] : k \in 0 .. MaxListLen}}

\* the values a field of Go type typ is given
ValuesOf(typ) ==
  CASE typ = "bool" -> BOOLEAN
    [] typ = "string" -> StringValues
    [] typ = "int" -> IntValues
    [] typ = "float64" -> FloatValues
    [] typ = "[]string" -> ListValues

\* configurations: six fields of all kinds in every combination, every
\* field of the struct alone with every value, and every two neighbouring
\* fields together
BuildConfigs ==
  [Port : {0, 8080, 0 - 12}, NoWebUI : BOOLEAN, ModelPath : StringValues,
   Threads : {0, 4}, RopeScale : FloatValues, LoraAdapters : ListValues]
  \cup
  UNION {{LlamaConfig[i].name :> v : v \in ValuesOf(LlamaConfig[i].typ)} :
           i \in 1 .. Len(LlamaConfig)}
  \cup
  UNION {{(LlamaConfig[i].name :> v) @@ (LlamaConfig[i + 1].name :> w) :
            v \in ValuesOf(LlamaConfig[i].typ) \ {ZeroValue(LlamaConfig[i].typ)},
            w \in ValuesOf(LlamaConfig[i + 1].typ)
                     \ {ZeroValue(LlamaConfig[i + 1].typ)}} :
           i \in 1 .. Len(LlamaConfig) - 1}

InitBuild ==
  /\ osArgs = <<"llauncher">>
  /\ env = NoEnv
  /\ files = NoFiles
  /\ pc = "build"
  /\ debugMode = FALSE
  /\ helpShown = FALSE
  /\ configFile = defaultPath
  /\ config \in BuildConfigs
  /\ loadErr = "nil"
  /\ buildErr = "unset"
  /\ built = FALSE
  /\ args = <<>>
  /\ spawnArgv = <<>>
  /\ notified = FALSE
  /\ sigChan = <<>>
  /\ relayPc = "none"
  /\ relaySig = NoSignal
  /\ cmdProcess = "nil"
  /\ runErr = "nil"
  /\ waitStatus = NoStatus
  /\ childState = "none"
  /\ childStatus = NoStatus
  /\ childSignals = <<>>
  /\ received = <<>>
  /\ spawnAttempts = 0
  /\ exitVia = "none"
  /\ exitCode = NoCode
  /\ shown = <<>>

NextBuild == BuildArgs

SpecBuild == InitBuild /\ [][NextBuild]_vars

(***************************************************************************)
(* The start of main on its own, lines 236-299: command lines of up to     *)
(* MaxArgs arguments, environments and sets of existing files              *)
(***************************************************************************)
MaxArgs == 3           \* arguments after the program name

ArgTokens == {"--help", "--debug", "--config", "/etc/a.yaml"}

ResolveArgs ==
  {<<"llauncher">> \o q : q \in UNION {[1 .. k -> ArgTokens] : k \in 0 .. MaxArgs}}

ResolveEnvs ==
  [LLAMA_CONFIG_PATH : {"", "/etc/b.yaml"}, XDG_CONFIG_HOME : {"", "/xdg"},
   HOME : {"", "/root"}]

\* the files that may exist, and the config each of them decodes to
FileContent ==
  [p \in {"/etc/a.yaml", "/etc/b.yaml", "/xdg/llauncher/config.yaml",
          "/xdg/llauncher.yaml", "/root/.config/llauncher.yaml", defaultPath} |->
     CASE p = "/etc/a.yaml" -> "ScenarioA"
       [] p \in {"/etc/b.yaml", "/root/.config/llauncher.yaml"} -> "Lora"
       [] OTHER -> "Empty"]

ResolveFiles ==
  {[p \in S |-> FileContent[p]] : S \in SUBSET DOMAIN FileContent}

InitResolve ==
  /\ osArgs \in ResolveArgs
  /\ env \in ResolveEnvs
  /\ files \in ResolveFiles
  /\ pc = "start"
  /\ debugMode = FALSE
  /\ helpShown = FALSE
  /\ configFile = ""
  /\ config = <<>>
  /\ loadErr = "unset"
  /\ buildErr = "unset"
  /\ built = FALSE
  /\ args = <<>>
  /\ spawnArgv = <<>>
  /\ notified = FALSE
  /\ sigChan = <<>>
  /\ relayPc = "none"
  /\ relaySig = NoSignal
  /\ cmdProcess = "nil"
  /\ runErr = "nil"
  /\ waitStatus = NoStatus
  /\ childState = "none"
  /\ childStatus = NoStatus
  /\ childSignals = <<>>
  /\ received = <<>>
  /\ spawnAttempts = 0
  /\ exitVia = "none"
  /\ exitCode = NoCode
  /\ shown = <<>>

NextResolve == CheckHelp \/ ResolveConfig \/ LoadConfig

SpecResolve == InitResolve /\ [][NextResolve]_vars

(***************************************************************************)
(* The debug print of lines 310-315 on its own: main in debug mode with an *)
(* argument vector of up to MaxDisplayLen arguments                        *)
(***************************************************************************)
MaxDisplayLen == 3     \* arguments in the vector that is printed

\* the arguments: "", "a", "-", "--m", "a b", "a<tab>b", "--m b"
DisplayArgs ==
  { <<>>, <<"a">>, <<"-">>, <<"-", "-", "m">>, <<"a", " ", "b">>,
    <<"a", "\t", "b">>, <<"-", "-", "m", " ", "b">> }

DisplayVectors == UNION {[1 .. k -> DisplayArgs] : k \in 0 .. MaxDisplayLen}

InitDisplay ==
  /\ osArgs = <<"llauncher", "--debug">>
  /\ env = NoEnv
  /\ files = NoFiles
  /\ pc = "display"
  /\ debugMode = TRUE
  /\ helpShown = FALSE
  /\ configFile = defaultPath
  /\ config = <<>>
  /\ loadErr = "nil"
  /\ buildErr = "nil"
  /\ built = TRUE
  /\ args \in DisplayVectors
  /\ spawnArgv = <<>>
  /\ notified = FALSE
  /\ sigChan = <<>>
  /\ relayPc = "none"
  /\ relaySig = NoSignal
  /\ cmdProcess = "nil"
  /\ runErr = "nil"
  /\ waitStatus = NoStatus
  /\ childState = "none"
  /\ childStatus = NoStatus
  /\ childSignals = <<>>
  /\ received = <<>>
  /\ spawnAttempts = 0
  /\ exitVia = "none"
  /\ exitCode = NoCode
  /\ shown = <<>>

\* lines 310-315: fmt.Printf("DEBUG: llama-server %s\n", formatArgsForDisplay(args))
DebugPrint ==
  /\ Alive /\ pc = "display" /\ debugMode
  /\ shown' = formatArgsForDisplay(args)
  /\ pc' = "command"
  /\ UNCHANGED <<osArgs, env, files, debugMode, helpShown, configFile, config,
                 loadErr, buildErr, built, args, spawnArgv, notified, sigChan,
                 relayPc, relaySig, cmdProcess, runErr, waitStatus, childState,
                 childStatus, childSignals, received, spawnAttempts, exitVia,
                 exitCode>>

NextDisplay == DebugPrint

SpecDisplay == InitDisplay /\ [][NextDisplay]_vars

\* the steps of the main goroutine and of the relay goroutine
MainStep ==
  \/ CheckHelp \/ ResolveConfig \/ LoadConfig \/ BuildArgs \/ Command
  \/ Notify \/ GoRelay \/ RunBegin \/ StartProcess \/ PublishProcess \/ Wait

RelayStep == RelayRecv \/ RelayCheck \/ RelaySignal

\* the exit codes of the child in the runs checked for progress
LiveExitCodes == {0, 1, 3, MaxExitCode}

LiveNext == Next /\ childStatus'.code \in LiveExitCodes

\* the Go scheduler runs every goroutine that can take a step; nothing is
\* assumed of the signals sent to the launcher nor of the child's end
LiveSpec ==
  Init /\ [][LiveNext]_vars /\ WF_vars(MainStep) /\ WF_vars(RelayStep)

(***************************************************************************)
(* Properties                                                              *)
(***************************************************************************)
Received == DOMAIN received

\* signal i of received reached the running child
Delivered(i) == \E k \in DOMAIN childSignals : childSignals[k].id = i

\* signal i was queued on sigChan and can no longer reach the child: the
\* relay dropped it on a nil handle, or it sits in the channel after the
\* relay goroutine has left its only receive.  (A signal the runtime could
\* not queue because sigChan was full is left aside here.)
Lost(i) ==
  \/ received[i].fate = "dropped_nil"
  \/ received[i].fate = "queued" /\ relayPc \in {"check", "signal", "done"}

RelayActive == Alive /\ relayPc \in {"recv", "check", "signal"}

Terminal == {"Exited", "SignalTerminated", "SpawnFailed"}

SupTransitions ==
  { <<"NotStarted", "Spawning">>, <<"Spawning", "Running">>,
    <<"Spawning", "SpawnFailed">>, <<"Running", "Exited">>,
    <<"Running", "SignalTerminated">> }

\* C1: when the child has exited normally with code c and the launcher has
\* ended, the launcher's exit code is c: by returning from main for c = 0, by
\* os.Exit(c) otherwise.
C1_ExitCodePropagated ==
  (childStatus.exited /\ exitVia # "none") =>
     /\ exitCode = childStatus.code
     /\ exitVia = IF childStatus.code = 0 THEN "return" ELSE "os.Exit"

C1_Witness ==
  /\ childStatus.exited /\ childStatus.code = 7
  /\ exitVia = "os.Exit" /\ exitCode = 7

\* C2: every SIGINT/SIGTERM the launcher receives (and queues on sigChan)
\* while the supervisor is Running is forwarded to the child, unchanged: none
\* of them is lost, the second as little as the first, and what the child
\* gets is the signal that was received.
C2_EverySignalForwarded ==
  /\ \A i \in Received : received[i].sup = "Running" => ~Lost(i)
  /\ \A k \in DOMAIN childSignals :
       childSignals[k].sig = received[childSignals[k].id].sig

\* C3: when loadConfig fails the launcher ends with a nonzero exit code, and
\* buildArgs is not called and no child is spawned.
C3_DecodeFailureExitsNonzero ==
  (loadErr \notin {"unset", "nil"}) =>
     /\ ~built
     /\ spawnAttempts = 0 /\ childState = "none"
     /\ (exitVia \in {"return", "os.Exit"} => exitCode # 0)

\* C4: the relay goroutine exists only once the spawn has published the
\* handle, and it never reads cmd.Process before the handle is published.
C4_RelayReadsPublishedHandle ==
  /\ relayPc # "none" => cmdProcess # "nil"
  /\ \A i \in Received : received[i].read # "unpublished"

\* C5: while the child is alive the relay goroutine is active, and it is
\* gone once the child has terminated and the launcher has ended.
C5_RelayActiveWhileChildAlive ==
  /\ childState = "running" => RelayActive
  /\ (SupState \in Terminal /\ pc = "done") => ~RelayActive

\* C6 (scenario D): once the launcher has ended after a child that exited,
\* every SIGINT it received while Running has gone to the child as SIGINT
\* (or was still on its way when the child ended), and the launcher's exit
\* code is the child's.
C6_ScenarioD ==
  (pc = "done" /\ SupState = "Exited") =>
     /\ exitCode = waitStatus.code
     /\ \A i \in Received :
          (received[i].sig = "SIGINT" /\ received[i].sup = "Running") =>
             /\ ~Lost(i)
             /\ received[i].fate = "forwarded" =>
                  \E k \in DOMAIN childSignals :
                     childSignals[k] = [id |-> i, sig |-> "SIGINT"]

C8_SpawnFailureExitsOne ==
  (runErr = "other" \/ buildErr \notin {"unset", "nil"}) =>
     /\ childState = "none"
     /\ spawnAttempts <= 1
     /\ exitVia # "none" => (exitVia = "os.Exit" /\ exitCode = 1)

C8_Witness ==
  /\ runErr = "other" /\ spawnAttempts = 1 /\ childState = "none"
  /\ exitVia = "os.Exit" /\ exitCode = 1

\* C9: when the child was terminated by a signal the launcher ends through
\* os.Exit(-1), which is exit code 255, and never with 0.
C9_SignalTerminatedNonzero ==
  (childState = "signaled" /\ exitVia # "none") =>
     /\ exitVia = "os.Exit"
     /\ exitCode = 255
     /\ exitCode # 0

C9_Witness ==
  /\ childState = "signaled" /\ childStatus.sig = "SIGTERM"
  /\ SupState = "SignalTerminated" /\ exitCode = 255

\* C10: the supervisor's state moves only NotStarted -> Spawning -> Running
\* -> Exited | SignalTerminated, or Spawning -> SpawnFailed; a terminal state
\* and its wait status never change; the spawn is tried at most once.
C10_StateMachine ==
  [][ /\ SupState' # SupState => <<SupState, SupState'>> \in SupTransitions
      /\ SupState \in Terminal =>
           (SupState' = SupState /\ waitStatus' = waitStatus)
      /\ spawnAttempts' <= 1 ]_vars

C10_Witness ==
  /\ SupState = "Exited" /\ waitStatus.code = 3
  /\ pc = "done" /\ spawnAttempts = 1

ChildTerminated == childState \in {"exited", "signaled"}

\* C11: while the child is alive the launcher has not ended, whatever
\* signals it received and however long the child runs; and once the child
\* has terminated the launcher ends.
C11_WaitsForChild ==
  /\ [](childState = "running" => Alive)
  /\ (ChildTerminated ~> ~Alive)

C11_Witness ==
  /\ childState = "running" /\ pc = "wait" /\ Alive
  /\ Len(received) = MaxSignals
  /\ \E i \in Received : received[i].fate = "forwarded"

\* C12: the command is made of the name "llama-server" and exactly the
\* vector buildArgs returns for the loaded configuration; it is not changed
\* afterwards, and it is the command a child runs with.
C12_ChildArgv ==
  /\ [][ /\ (pc = "command" /\ pc' = "notify") =>
              spawnArgv' = <<"llama-server", buildArgs(config).args>>
         /\ spawnArgv # <<>> => spawnArgv' = spawnArgv ]_vars
  /\ [](childState # "none" =>
          (Len(spawnArgv) = 2 /\ spawnArgv[1] = "llama-server"))

C12_Witness ==
  /\ childState = "running"
  /\ spawnArgv = <<"llama-server",
                   <<"--port", "8080", "--model", "/m.gguf", "--threads", "4">>>>

(***************************************************************************)
(* Properties of buildArgs, stated on the vector main holds after the call *)
(***************************************************************************)
FieldIdx == 1 .. Len(LlamaConfig)

FlagNames == {LlamaConfig[i].arg : i \in FieldIdx}

Range(q) == {q[k] : k \in DOMAIN q}

Positions(q, t) == {k \in DOMAIN q : q[k] = t}

SetMin(S) == CHOOSE x \in S : \A y \in S : x <= y

SetMax(S) == CHOOSE x \in S : \A y \in S : y <= x

\* buildArgs has returned without an error
Built == pc # "build" /\ buildErr = "nil"

\* v is the zero value of its kind: "", 0, 0.0, false, a list of no elements
Unset(typ, v) ==
  CASE typ = "bool" -> v = FALSE
    [] typ = "string" -> v = ""
    [] typ = "int" -> v = 0
    [] typ = "float64" -> v = Float(FALSE, <<>>, 0)
    [] typ = "[]string" -> v.elems = <<>>

UnsetField(cfg, i) ==
  Unset(LlamaConfig[i].typ, FieldValue(cfg, LlamaConfig[i]))

\* the config with the fields that hold a zero value left out
SetPart(cfg) ==
  LET set == {i \in FieldIdx :
                LlamaConfig[i].name \in DOMAIN cfg /\ ~UnsetField(cfg, i)}
  IN [n \in {LlamaConfig[i].name : i \in set} |-> cfg[n]]

\* C13: the flag of a field that holds the zero value of its kind does not
\* occur in the vector, the vector is the one built for the config with
\* those fields left unset, and a config of zero values only gives the
\* empty vector.
C13_ZeroOmitted ==
  Built =>
    /\ \A i \in FieldIdx :
         UnsetField(config, i) => LlamaConfig[i].arg \notin Range(args)
    /\ args = buildArgs(SetPart(config)).args
    /\ (\A i \in FieldIdx : UnsetField(config, i)) => args = <<>>

\* Port and Threads set to 0, the list empty but not nil, one field set
C13_Witness ==
  /\ Built
  /\ {"Port", "Threads", "LoraAdapters"} \subseteq DOMAIN config
  /\ config.Port = 0 /\ config.Threads = 0
  /\ config.LoraAdapters = Slice(<<>>)
  /\ args = <<"--model", "/m.gguf">>

\* the fields of the config that hold a value other than the zero value
SetFields == {i \in FieldIdx : ~UnsetField(config, i)}

\* where the tokens of field i begin and end in the vector
FirstToken(i) == SetMin(Positions(args, LlamaConfig[i].arg))

LastToken(i) ==
  SetMax(Positions(args, LlamaConfig[i].arg))
    + (IF LlamaConfig[i].typ = "bool" THEN 0 ELSE 1)

\* C14: of two fields that hold non-zero values, every token of the one
\* declared first stands before every token of the one declared later.
C14_DeclarationOrder ==
  Built =>
    /\ \A i \in SetFields : LlamaConfig[i].arg \in Range(args)
    /\ \A i \in SetFields : \A j \in SetFields :
         i < j => LastToken(i) < FirstToken(j)

\* six fields of five kinds, lines 28, 31, 37, 49, 90 and 146 of the struct
C14_Witness ==
  /\ Built
  /\ args = <<"--port", "8080", "--no-webui", "--model", "/m.gguf",
              "--threads", "4", "--rope-scale", "0.5",
              "--lora", "a.bin", "--lora", "b.bin">>

\* Scenario A: only ModelPath, Port and Threads hold values
ScenarioA == Built /\ SetPart(config) = Configs.ScenarioA

BoolFields == {i \in FieldIdx : LlamaConfig[i].typ = "bool"}

\* C16: a boolean field that is true gives its flag once, and what follows
\* the flag, if anything, is the flag of another field; alone in the config
\* it gives the one-token vector.  A boolean field that is false gives no
\* token.
C16_BoolFields ==
  Built =>
    \A i \in BoolFields :
      LET flag == LlamaConfig[i].arg
          at == Positions(args, flag)
      IN IF FieldValue(config, LlamaConfig[i])
           THEN /\ Cardinality(at) = 1
                /\ \A k \in at :
                     k < Len(args) => args[k + 1] \in FlagNames \ {flag}
                /\ SetFields = {i} => args = <<flag>>
           ELSE at = {}

\* --no-webui between two fields that take a value
C16_Witness ==
  /\ Built
  /\ args = <<"--port", "8080", "--no-webui", "--model", "/m.gguf">>
  /\ FieldValue(config, [name |-> "NoWebUI", typ |-> "bool"])

ListFields == {i \in FieldIdx : LlamaConfig[i].typ = "[]string"}

\* C17: a list field of n elements gives n consecutive pairs of its flag
\* and an element, the elements in their order in the list; a list without
\* elements, nil or not, gives nothing.
C17_ListFields ==
  Built =>
    \A i \in ListFields :
      LET flag == LlamaConfig[i].arg
          elems == FieldValue(config, LlamaConfig[i]).elems
          n == Len(elems)
          at == Positions(args, flag)
      IN /\ Cardinality(at) = n
         /\ n > 0 =>
              \A e \in 1 .. n :
                /\ args[SetMin(at) + 2 * (e - 1)] = flag
                /\ args[SetMin(at) + 2 * (e - 1) + 1] = elems[e]
         /\ SetFields \subseteq {i} => Len(args) = 2 * n

\* Scenario B: only LoraAdapters set, to the list of a.bin and b.bin
C17_Witness ==
  /\ Built
  /\ SetPart(config) = [LoraAdapters |-> Slice(<<"a.bin", "b.bin">>)]
  /\ args = <<"--lora", "a.bin", "--lora", "b.bin">>

StringFields == {i \in FieldIdx : LlamaConfig[i].typ = "string"}

IntFields == {i \in FieldIdx : LlamaConfig[i].typ = "int"}

\* the base-10 text of the integers of IntValues
Decimal(n) ==
  CASE n = 4 -> "4"
    [] n = 8080 -> "8080"
    [] n = 0 - 12 -> "-12"

\* field i gives its flag once, text right after it, and then the flag of
\* another field or the end of the vector
FlagThenText(i, text) ==
  LET flag == LlamaConfig[i].arg
      at == Positions(args, flag)
  IN /\ Cardinality(at) = 1
     /\ \A k \in at :
          /\ k < Len(args) /\ args[k + 1] = text
          /\ k + 2 <= Len(args) => args[k + 2] \in FlagNames \ {flag}
     /\ SetFields = {i} => args = <<flag, text>>

\* C18: a string field that is not empty gives its flag and then the string
\* as it is, and an integer field that is not 0 gives its flag and then the
\* integer in base 10, with a minus sign when negative.
C18_StringAndIntFields ==
  Built =>
    /\ \A i \in StringFields \cap SetFields :
         FlagThenText(i, FieldValue(config, LlamaConfig[i]))
    /\ \A i \in IntFields \cap SetFields :
         FlagThenText(i, Decimal(FieldValue(config, LlamaConfig[i])))

\* a negative integer and a string with a blank in it
C18_Witness ==
  /\ Built
  /\ args = <<"--port", "-12", "--model", "my model.gguf", "--threads", "4">>

\* the kinds the switch of lines 405-426 has a case for
SupportedKinds == {"Bool", "String", "Int", "Float64", "Slice"}

\* C20: every field of the struct has a flag and a kind the switch handles,
\* the lists being lists of strings; buildArgs returns no error for any
\* config, and every field that holds a non-zero value has its flag in the
\* vector.
C20_NoUnsupportedKind ==
  /\ \A i \in FieldIdx :
       /\ LlamaConfig[i].arg # ""
       /\ Kind(LlamaConfig[i].typ) \in SupportedKinds
       /\ Kind(LlamaConfig[i].typ) = "Slice" =>
            ElemKind(LlamaConfig[i].typ) = "String"
  /\ pc # "build" =>
       /\ buildErr = "nil"
       /\ exitVia = "none"
       /\ \A i \in SetFields : LlamaConfig[i].arg \in Range(args)

\* fields of all five kinds in one config
C20_Witness ==
  /\ Built
  /\ args = <<"--port", "8080", "--no-webui", "--model", "--x",
              "--threads", "4", "--rope-scale", "-1.25", "--lora", "b.bin">>

Loaded == loadErr # "unset"

\* where "--config" stands with an argument after it
ConfigFlagAt == {i \in 2 .. Len(osArgs) - 1 : osArgs[i] = "--config"}

\* the XDG candidates that exist, in the order of lines 265-266
XdgExisting ==
  LET dir == IF env.XDG_CONFIG_HOME # "" THEN env.XDG_CONFIG_HOME
             ELSE IF env.HOME # "" THEN env.HOME \o "/.config" ELSE ""
  IN IF dir = "" THEN <<>>
     ELSE SelectSeq(<<dir \o "/llauncher/config.yaml", dir \o "/llauncher.yaml">>,
                    LAMBDA p : Exists(files, p))

\* C22, as stated: wherever "--config P" stands in the arguments, with P an
\* existing file, the configuration loaded is P.
C22_AnyConfigFlagWins ==
  \A i \in ConfigFlagAt :
    (Loaded /\ Exists(files, osArgs[i + 1])) => configFile = osArgs[i + 1]

\* C22: when the first "--config" that has an argument after it is followed
\* by P and the file P exists, the configuration loaded is P, and decoded
\* from P, whatever LLAMA_CONFIG_PATH is and whatever other files exist.
C22_FirstConfigFlagWins ==
  \A i \in ConfigFlagAt :
    (/\ Loaded
     /\ \A j \in ConfigFlagAt : i <= j
     /\ Exists(files, osArgs[i + 1]))
    => /\ configFile = osArgs[i + 1]
       /\ loadErr = "nil"
       /\ config = Configs[files[osArgs[i + 1]]]

\* --config /etc/a.yaml with LLAMA_CONFIG_PATH, an XDG candidate and
\* ./config.yaml all there
C22_Witness ==
  /\ Loaded
  /\ osArgs = <<"llauncher", "--config", "/etc/a.yaml">>
  /\ configFile = "/etc/a.yaml"
  /\ env.LLAMA_CONFIG_PATH = "/etc/b.yaml" /\ Exists(files, "/etc/b.yaml")
  /\ XdgExisting # <<>>
  /\ Exists(files, defaultPath)

\* C23: when the first argument is "--help" the launcher shows the usage
\* text and ends with code 0 (unless a signal kills it before that); it
\* resolves and loads no configuration, builds no arguments, installs no
\* signal relay and spawns no child.
C23_HelpOnly ==
  HelpRequested(osArgs) =>
    /\ pc \in {"start", "done"}
    /\ (pc = "done" /\ exitVia # "signal") =>
         (helpShown /\ exitVia = "os.Exit" /\ exitCode = 0)
    /\ configFile = "" /\ loadErr = "unset" /\ config = <<>>
    /\ ~built /\ spawnArgv = <<>>
    /\ ~notified /\ relayPc = "none"
    /\ spawnAttempts = 0 /\ childState = "none" /\ childSignals = <<>>

\* --help in front of a --config that names an existing file
C23_Witness ==
  /\ osArgs = <<"llauncher", "--help", "--config", "/etc/a.yaml">>
  /\ Exists(files, "/etc/a.yaml")
  /\ pc = "done" /\ helpShown /\ exitCode = 0

\* the candidates in the order the comment of line 252 gives: the --config
\* path, else the XDG candidates and after them LLAMA_CONFIG_PATH
DocumentedPaths ==
  LET dir == IF env.XDG_CONFIG_HOME # "" THEN env.XDG_CONFIG_HOME
             ELSE IF env.HOME # "" THEN env.HOME \o "/.config" ELSE ""
      byXdg == IF dir = "" THEN <<>>
               ELSE <<dir \o "/llauncher/config.yaml", dir \o "/llauncher.yaml">>
      byEnv == IF env.LLAMA_CONFIG_PATH # ""
                 THEN <<env.LLAMA_CONFIG_PATH>> ELSE <<>>
  IN IF ConfigFlagAt # {}
       THEN <<osArgs[(CHOOSE i \in ConfigFlagAt : \A j \in ConfigFlagAt : i <= j) + 1]>>
       ELSE byXdg \o byEnv

\* C24: the configuration loaded is the first existing path in the
\* documented order (--config, the two XDG candidates, LLAMA_CONFIG_PATH),
\* or ./config.yaml; without --config an existing XDG candidate is loaded
\* in preference to the file named by LLAMA_CONFIG_PATH.
C24_DocumentedPriority ==
  Loaded =>
    /\ configFile = FirstExisting(files, DocumentedPaths, 1)
    /\ (ConfigFlagAt = {} /\ XdgExisting # <<>>) => configFile = XdgExisting[1]

\* every path the arguments and the environment name
NamedPaths ==
  {osArgs[i + 1] : i \in ConfigFlagAt} \cup {env.LLAMA_CONFIG_PATH}
    \cup {d \o "/llauncher/config.yaml" : d \in {env.XDG_CONFIG_HOME, env.HOME \o "/.config"}}
    \cup {d \o "/llauncher.yaml" : d \in {env.XDG_CONFIG_HOME, env.HOME \o "/.config"}}

RelayTook ==
  {i \in Received :
     received[i].fate \in {"held", "forwarded", "late", "dropped_nil"}}

\* C26: the relay takes at most one signal in a run; once it has taken one,
\* forwarded or dropped, no later signal reaches the child: it stays in
\* sigChan or is dropped there, and it does not end the launcher.
C26_RelayTakesOneSignal ==
  /\ Cardinality(RelayTook) <= 1
  /\ Len(childSignals) <= 1
  /\ \A i \in RelayTook : \A j \in Received :
       j > i =>
         /\ ~Delivered(j)
         /\ received[j].fate \in {"queued", "dropped_full"}
         /\ exitVia # "signal"
         /\ Alive \/ childState # "running"

\* the first signal forwarded, the second left in sigChan, the child running
C26_Witness ==
  /\ Len(received) = 2
  /\ received[1].fate = "forwarded"
  /\ received[2].fate = "queued"
  /\ relayPc = "done"
  /\ childState = "running" /\ Alive

\* what has become of the child, or of the attempt to have one
ChildOutcome ==
  IF childState \in {"exited", "signaled"}
    THEN [kind |-> "terminated", status |-> childStatus]
  ELSE IF spawnAttempts > 0 /\ pc = "done"
    THEN [kind |-> "spawn failed", status |-> NoStatus]
  ELSE IF buildErr \notin {"unset", "nil"}
    THEN [kind |-> "build failed", status |-> NoStatus]
  ELSE [kind |-> "none", status |-> NoStatus]

\* the exit code that goes with each outcome
ExitCodeFor(outcome) ==
  IF outcome.kind \in {"spawn failed", "build failed"} THEN 1
  ELSE IF outcome.status.exited THEN outcome.status.code
  ELSE MaxExitCode

\* C27: once the launcher has ended after the child's end, or after a spawn
\* or build failure, its exit code is the one that goes with that outcome,
\* whatever signals the launcher received and whenever it received them.
C27_ExitCodeFromOutcomeOnly ==
  (~Alive /\ ChildOutcome.kind # "none") =>
    /\ exitVia \in {"return", "os.Exit"}
    /\ exitCode = ExitCodeFor(ChildOutcome)

\* exit code 3 of the child passed on after two signals, one of them taken
\* by the relay when the child had already ended
C27_Witness ==
  /\ ~Alive
  /\ childState = "exited" /\ childStatus.code = 3 /\ exitCode = 3
  /\ Len(received) = 2
  /\ received[1].fate = "late"
  /\ received[1].sig # received[2].sig

\* the command line with every "--debug" taken out
WithoutDebug(a) == SelectSeq(a, LAMBDA t : t # "--debug")

\* C28: the launcher does on a command line with "--debug" what it does on
\* the same command line without it: help is shown on request in the same
\* cases, and the same configuration file is loaded.
C28_DebugObservationOnly ==
  /\ pc # "start" =>
       (HelpRequested(WithoutDebug(osArgs)) <=> (helpShown /\ ~Loaded))
  /\ Loaded =>
       configFile =
         FirstExisting(files, CandidatePaths(WithoutDebug(osArgs), env), 1)

YamlKeys == {LlamaConfig[i].yaml : i \in FieldIdx}

\* C29: the flags of the fields are all different, and so are their keys;
\* in the vector a flag stands more than once only when it is the flag of a
\* list field, once per element of the list.
C29_FlagsDistinct ==
  /\ Cardinality(FlagNames) = Len(LlamaConfig)
  /\ Cardinality(YamlKeys) = Len(LlamaConfig)
  /\ Built =>
       \A i \in SetFields :
         LET n == Cardinality(Positions(args, LlamaConfig[i].arg))
         IN IF i \in ListFields
              THEN n = Len(FieldValue(config, LlamaConfig[i]).elems)
              ELSE n = 1

\* --lora twice, with the same element, next to flags that stand once
C29_Witness ==
  /\ Built
  /\ args = <<"--port", "8080", "--threads", "4",
              "--lora", "a.bin", "--lora", "a.bin">>

(***************************************************************************)
(* Properties of formatArgsForDisplay                                      *)
(***************************************************************************)
RECURSIVE Flatten(_, _)
\* the texts of pieces, from index i on, one after the other
Flatten(pieces, i) ==
  IF i > Len(pieces) THEN <<>> ELSE pieces[i] \o Flatten(pieces, i + 1)

\* argument i as it is to stand in the text: in double quotes when it has
\* whitespace in it; after a space, or after " \", a line break and four
\* spaces when it is not the first and starts with "--"
DisplayPiece(a, i) ==
  LET quoted == IF \E k \in DOMAIN a[i] : a[i][k] \in {" ", "\t", "\n"}
                  THEN <<"\"">> \o a[i] \o <<"\"">> ELSE a[i]
      flag == Len(a[i]) >= 2 /\ a[i][1] = "-" /\ a[i][2] = "-"
  IN (IF i = 1 THEN <<>>
      ELSE IF flag THEN <<" ", "\\", "\n", " ", " ", " ", " ">>
      ELSE <<" ">>) \o quoted

\* C30: the text is made of the arguments in their order, each quoted when
\* it has whitespace in it, each after the first that starts with "--" on a
\* new line and every other one after a single space; no arguments give
\* the empty text.
C30_DisplayFormat ==
  pc = "command" =>
    /\ shown = Flatten([i \in 1 .. Len(args) |-> DisplayPiece(args, i)], 1)
    /\ args = <<>> => shown = <<>>

=============================================================================
